---- MODULE Spec2Model ----
(***************************************************************************)
(* A model of WSClient (src/klipper_voice_manager/ws_client.py) and of the *)
(* threads of main.py that call into it.  Every thread has a position      *)
(* (pc), a stack of return labels (stop and start are called from several  *)
(* places) and the text it is handling.  A step is one lock acquisition,   *)
(* one critical section, or one run of statements between two of them.     *)
(***************************************************************************)
EXTENDS Integers, Sequences, FiniteSets, TLC

\* ------------------------------------------------------------------ bounds
MaxThreads == 2      \* worker threads start() may create in one behaviour
MaxOffers  == 3      \* admitted text events between two full restarts
MaxLog     == 4      \* mailbox operations remembered in oplog
MaxStops   == 2      \* stop() calls the main thread makes (cleanup, repeated)
MaxUpdates == 4      \* print states one status record enters
MaxEstimates == 2    \* announcements of the initial estimate counted in a run

\* --------------------------------------------------------------- constants
None == "None"
UNKNOWN_STR == "-"      \* the dash "\u2014" of ws_client.py
NoCache == -1           \* _cached_remaining is None
Absent == -1            \* a key the status frame does not carry

WorkerName == <<"w1", "w2", "w3", "w4">>
Workers   == {WorkerName[i] : i \in 1..MaxThreads}
Main      == "main"
Cons      == "cons"
CfgA      == "cfgA"
CfgB      == "cfgB"
Reconfigurers == {CfgA, CfgB}
Callers   == {Main, Cons} \cup Reconfigurers
Threads   == Workers \cup Callers

(* The "response" section of the configuration: category -> identifier ->  *)
(* set of exact-match templates.                                            *)
ResponseCfg ==
  [parking         |-> [G28_START |-> {"A"}, PARK_DONE |-> {"C"}],
   custom_response |-> [beep      |-> {"B"}]]

Texts == {"A", "B", "x"}      \* "x" is in no template set
TextsOffered == {"A"}         \* the text received before a restart
TextsParking == {"A", "C"}    \* the texts of the parking templates

\* PrintState and CompletionState values; PENDING and UNKNOWN are the dash
PRINTING == "printing"
PAUSED == "paused"
COMPLETE == "complete"
STANDBY == "standby"
CANCELLED == "cancelled"
ERROR == "error"
PENDING == UNKNOWN_STR
StateInputs == {PRINTING, STANDBY, COMPLETE}    \* print_stats.state values received

VARIABLES
  shared_status,        \* the dict shared with main.py
  status,               \* self.status, a PrinterStatus
  print_started, manual_reset_active, print_time_announced,
  response_queue,
  status_lock, queue_lock, reconfig_lock,      \* holder, or None
  is_reconfiguring, is_restarting, restart_in_progress,
  stop_event, thread, ws, connected, subscribed,
  pc, stack, txt,       \* per thread: position, return labels, text in hand
  nthreads,             \* Thread objects created so far
  app,                  \* per worker: state of the WebSocketApp it made
  stops, lastcall,      \* the main thread: stop() calls made, last call
  solo,                 \* no worker was alive when the main thread's last
                        \* stop() was called
  admitted, exposed,    \* history: admitted texts, texts that became current
  oplog,                \* history: offers and clears since construction
  trail,                \* history: print states the current record entered
  changed,              \* what _extract_status_from_message returned last
  e2e,                  \* history: frames of EndToEnd applied, in order
  frame,                \* per worker: the status frame in hand
  differs,              \* per worker: what the comparison at 227 gave
  monitor,              \* klipper_monitor: flags read and to announce, flags
                        \* it has announced
  estimates,            \* history: initial estimates announced in this run
  filename,             \* self.status.filename
  held,                 \* the consumer's reference from get_state()
  seen,                 \* the values the record had when get_state returned
  config,               \* the Config Provider's klipper and websocket sections
  uri,                  \* self.uri
  ws_settings,          \* what _load_ws_config loaded
  sent                  \* per worker: the requests sent on the app it has

clientVars ==
  <<shared_status, status, print_started, manual_reset_active,
    print_time_announced, response_queue, is_reconfiguring, is_restarting,
    restart_in_progress, stop_event, thread, ws, connected, subscribed,
    nthreads, app>>
fsmVars   == <<print_started, manual_reset_active, print_time_announced>>
guardVars == <<is_reconfiguring, is_restarting, restart_in_progress>>
connVars  == <<stop_event, thread, ws, connected, subscribed, nthreads, app>>
mainVars  == <<stops, lastcall, solo>>
lockVars  == <<status_lock, queue_lock, reconfig_lock>>
histVars  == <<admitted, exposed, oplog>>
runVars   == <<differs>>
procVars  == <<monitor, estimates, filename>>
obsVars   == <<trail, changed, e2e, held, seen, frame, runVars, procVars>>
netVars   == <<config, uri, ws_settings, sent>>
vars ==
  <<clientVars, lockVars, histVars, pc, stack, txt, mainVars, obsVars,
    netVars>>

\* ------------------------------------------------------------ dictionaries
EmptyDict == [k \in {} |-> None]
Get(d, k) == IF k \in DOMAIN d THEN d[k] ELSE None
Put(d, k, v) == [x \in DOMAIN d \cup {k} |-> IF x = k THEN v ELSE d[x]]

\* shared_status.clear(); shared_status["connected"] = False
ClearedStatus == Put(EmptyDict, "connected", "False")

\* PrinterStatus(): the dataclass defaults
\* a progress that is not a number (a string, a list)
Malformed == -2

\* a status frame with no key the client reads
NoFrame ==
  [state |-> None, progress |-> Absent, print_duration |-> Absent,
   temperature |-> Absent, toolhead |-> Absent]

\* a frame carrying only print_stats.state
StateFrame(s) == [NoFrame EXCEPT !.state = s]

\* (times are whole seconds; of the fields _update_status_field writes as
\* they come, bed_temp stands for filament_used, bed_target, ext_temp and
\* ext_target; filename is the variable filename)
PrinterStatus ==
  [print_state |-> UNKNOWN_STR, completion_state |-> UNKNOWN_STR,
   gcode_response |-> None,
   progress_percent |-> 0, elapsed_time |-> 0, remaining_time |-> 0,
   bed_temp |-> 0, last_progress |-> -1, cached_remaining |-> NoCache]

\* the mailbox's current item: shared_status.get("response")
Current == Get(shared_status, "response")

\* self.status = PrinterStatus(): the updates recorded in trail were made to
\* the record that is replaced, and a reference a consumer holds now refers
\* to the old record
NewRecord ==
  /\ trail' = <<>>
  /\ held' = IF held = "live" THEN "old" ELSE held
  /\ filename' = None
  /\ UNCHANGED <<changed, e2e, seen, frame, runVars, monitor, estimates,
                 netVars>>

\* ---------------------------------------------------------------- threads
Alive(t) == pc[t] \notin {"unborn", "dead"}

Goto(t, l) == /\ pc' = [pc EXCEPT ![t] = l]
              /\ UNCHANGED stack
Call(t, entry, ret) == /\ pc' = [pc EXCEPT ![t] = entry]
                       /\ stack' = [stack EXCEPT ![t] = <<ret>> \o @]
Return(t) == /\ pc' = [pc EXCEPT ![t] = Head(stack[t])]
             /\ stack' = [stack EXCEPT ![t] = Tail(@)]

\* ---------------------------------------------------------------- history
\* oplog holds the mailbox operations since construction for as long as they
\* are offers followed by clears, MaxLog at most; then it is <<"other">>
OffersThenClears(log) ==
  \A i \in 1..Len(log) : \A j \in 1..Len(log) :
    (i < j /\ log[i] = "clear") => log[j] = "clear"
Log(op) == oplog' = IF /\ Len(oplog) < MaxLog
                       /\ oplog # <<"other">>
                       /\ OffersThenClears(Append(oplog, op))
                    THEN Append(oplog, op) ELSE <<"other">>
LogOther == oplog' = <<"other">>

\* ----------------------------------------------------- the template filter
\* a filter that admits every text
MatchesAnything(text) == text = text

\* ws_client.py 529-531: response_text in templates, for some section and id
Matches(text) ==
  \E section \in DOMAIN ResponseCfg :
    \E resp_id \in DOMAIN ResponseCfg[section] :
      text \in ResponseCfg[section][resp_id]

\* ---------------------------------------------------------- configuration
\* what the Config Provider holds: the host of the klipper section ("" when
\* the section or the host is missing or empty) and the websocket section,
\* for which reconnect_delay stands
Hosts == {"", "printer"}
Configs == [host : Hosts, reconnect_delay : {2, 5}]
DefaultConfig == [host |-> "printer", reconnect_delay |-> 2]

\* f"ws://{new_ip}:{new_port}{new_path}", with the default port and path
Uri(host) == <<"ws", host, 7125, "/websocket">>
NoUri == <<>>
DefaultUri == Uri("localhost")

\* _ws_thread 402: "localhost" in self.uri
HasLocalhost(u) == u # NoUri /\ u[2] = "localhost"

\* _load_connection_params 112-135: the value of self.uri afterwards; without
\* a host the uri the client has is kept, and the default is set when it has
\* none
LoadConnectionParams(cfg, old) ==
  IF cfg.host = ""
  THEN IF old = NoUri THEN DefaultUri ELSE old
  ELSE Uri(cfg.host)

\* _load_ws_config 138-146
LoadWsConfig(cfg) == [reconnect_delay |-> cfg.reconnect_delay]

\* a websocket section that is null in the file: get_config_section
\* (config_manager.py 130) returns None for it, and ws_config.get at 140
\* raises
NullSection == -3
NullWsConfig == [host |-> "printer", reconnect_delay |-> NullSection]
WsConfigRaises(cfg) == cfg.reconnect_delay = NullSection

\* no request sent
NothingSent == [query |-> 0, subscribe |-> 0]

\* ------------------------------------------------------------------- Init
\* the client constructed while the Config Provider holds cfg
Constructed(cfg) ==
  /\ config = cfg
  /\ uri = LoadConnectionParams(cfg, NoUri)
  /\ ws_settings = LoadWsConfig(cfg)
  /\ sent = [w \in Workers |-> NothingSent]
  /\ shared_status = EmptyDict
  /\ status = PrinterStatus
  /\ print_started = FALSE
  /\ manual_reset_active = FALSE
  /\ print_time_announced = FALSE
  /\ response_queue = <<>>
  /\ status_lock = None /\ queue_lock = None /\ reconfig_lock = None
  /\ is_reconfiguring = FALSE /\ is_restarting = FALSE
  /\ restart_in_progress = FALSE
  /\ stop_event = FALSE
  /\ thread = None /\ ws = None
  /\ connected = FALSE /\ subscribed = FALSE
  /\ pc = [t \in Threads |-> IF t \in Workers THEN "unborn" ELSE "idle"]
  /\ stack = [t \in Threads |-> <<>>]
  /\ txt = [t \in Threads |-> None]
  /\ nthreads = 0
  /\ app = [w \in Workers |-> "none"]
  /\ stops = 0 /\ lastcall = "none" /\ solo = FALSE
  /\ admitted = <<>> /\ exposed = <<>> /\ oplog = <<>>
  /\ trail = <<>> /\ changed = FALSE /\ e2e = 0
  /\ held = None /\ seen = PrinterStatus
  /\ frame = [w \in Workers |-> NoFrame]
  /\ differs = [w \in Workers |-> FALSE]
  /\ monitor = [pending |-> {}, notified |-> {}]
  /\ estimates = 0
  /\ filename = None

Init == Constructed(DefaultConfig)

\* the client constructed with any configuration
InitAnyConfig == \E cfg \in Configs : Constructed(cfg)

\* --------------------------------------------------- the response mailbox
\* _on_message 342-346: a notify_gcode_response frame reaches the worker
OnMessageText(w, text) ==
  /\ pc[w] = "running" /\ app[w] = "open"
  /\ Len(admitted) < MaxOffers
  /\ txt' = [txt EXCEPT ![w] = text]
  /\ Goto(w, "hnr")
  /\ UNCHANGED <<clientVars, lockVars, histVars, mainVars, obsVars,
                 netVars>>

\* _handle_new_response 526-531, 544-545: the search of the template index
HnrMatch(w) ==
  /\ pc[w] = "hnr"
  /\ Goto(w, IF Matches(txt[w]) THEN "hnr_q" ELSE "running")
  /\ UNCHANGED <<clientVars, lockVars, histVars, txt, mainVars, obsVars,
                 netVars>>

\* 533: with self.queue_lock
HnrLockQueue(w) ==
  /\ pc[w] = "hnr_q" /\ queue_lock = None
  /\ queue_lock' = w
  /\ Goto(w, "hnr_chk")
  /\ UNCHANGED <<clientVars, status_lock, reconfig_lock, histVars, txt,
                 mainVars, obsVars,
                 netVars>>

\* 534, 538-539: current is occupied, the text joins the queue
HnrCheck(w) ==
  /\ pc[w] = "hnr_chk"
  /\ IF Current = None
     THEN /\ Goto(w, "hnr_s")
          /\ UNCHANGED <<response_queue, queue_lock, histVars, txt>>
     ELSE /\ response_queue' = Append(response_queue, txt[w])
          /\ queue_lock' = None
          /\ admitted' = Append(admitted, txt[w])
          /\ Log(txt[w])
          /\ txt' = [txt EXCEPT ![w] = None]
          /\ Goto(w, "running")
          /\ UNCHANGED exposed
  /\ UNCHANGED <<shared_status, status, fsmVars, guardVars, connVars,
                 status_lock, reconfig_lock, mainVars, obsVars,
                 netVars>>

\* 535: with self.status_lock, the queue lock still held
HnrLockStatus(w) ==
  /\ pc[w] = "hnr_s" /\ status_lock = None
  /\ status_lock' = w
  /\ Goto(w, "hnr_w")
  /\ UNCHANGED <<clientVars, queue_lock, reconfig_lock, histVars, txt,
                 mainVars, obsVars,
                 netVars>>

\* 536-537: the text becomes current and is mirrored; both locks released
HnrWrite(w) ==
  /\ pc[w] = "hnr_w"
  /\ shared_status' = Put(shared_status, "response", txt[w])
  /\ status' = [status EXCEPT !.gcode_response = txt[w]]
  /\ status_lock' = None /\ queue_lock' = None
  /\ admitted' = Append(admitted, txt[w])
  /\ exposed' = Append(exposed, txt[w])
  /\ Log(txt[w])
  /\ txt' = [txt EXCEPT ![w] = None]
  /\ Goto(w, "running")
  /\ UNCHANGED <<response_queue, fsmVars, guardVars, connVars, reconfig_lock,
                 mainVars, obsVars,
                 netVars>>

\* has_pending_response 580, and the notifiers' read of the current response
\* (custom_notifier.py 15-16): with self.status_lock
PeekLock(c) ==
  /\ pc[c] = "idle" /\ status_lock = None
  /\ status_lock' = c
  /\ Goto(c, "peek")
  /\ UNCHANGED <<clientVars, queue_lock, reconfig_lock, histVars, txt,
                 mainVars, obsVars,
                 netVars>>

\* 581: the value is read and the lock released
PeekRead(c) ==
  /\ pc[c] = "peek"
  /\ status_lock' = None
  /\ Goto(c, "idle")
  /\ UNCHANGED <<clientVars, queue_lock, reconfig_lock, histVars, txt,
                 mainVars, obsVars,
                 netVars>>

\* clear_response 548: with self.status_lock, ...
ClrLockStatus(c) ==
  /\ pc[c] = "idle" /\ status_lock = None
  /\ status_lock' = c
  /\ Goto(c, "clr_q")
  /\ UNCHANGED <<clientVars, queue_lock, reconfig_lock, histVars, txt,
                 mainVars, obsVars,
                 netVars>>

\* 548: ..., self.queue_lock
ClrLockQueue(c) ==
  /\ pc[c] = "clr_q" /\ queue_lock = None
  /\ queue_lock' = c
  /\ Goto(c, "clr_body")
  /\ UNCHANGED <<clientVars, status_lock, reconfig_lock, histVars, txt,
                 mainVars, obsVars,
                 netVars>>

\* a clear that never advances
NextResponseNone(queue) == IF queue # <<>> THEN None ELSE None

\* 549-554: the head of the queue, if any, becomes current
NextResponse(queue) == IF queue # <<>> THEN Head(queue) ELSE None

ClrBody(c) ==
  /\ pc[c] = "clr_body"
  /\ shared_status' = Put(shared_status, "response",
                          NextResponse(response_queue))
  /\ status' = [status EXCEPT !.gcode_response = NextResponse(response_queue)]
  /\ response_queue' = IF response_queue # <<>> THEN Tail(response_queue)
                       ELSE <<>>
  /\ exposed' = IF response_queue # <<>>
                THEN Append(exposed, Head(response_queue)) ELSE exposed
  /\ Log("clear")
  /\ status_lock' = None /\ queue_lock' = None
  /\ Goto(c, "idle")
  /\ UNCHANGED <<fsmVars, guardVars, connVars, reconfig_lock, admitted, txt,
                 mainVars, obsVars,
                 netVars>>

\* ------------------------------------------------------ the worker thread
\* what close() on the app self._ws refers to does to its socket: an app
\* whose run_forever has a socket open is torn down by its own thread
CloseApp(apps, ref) ==
  [w \in Workers |-> IF w = ref /\ apps[w] = "open" THEN "closing"
                     ELSE apps[w]]

\* _ws_thread 394-415: the loop test, the thread guard, the reload of the
\* connection parameters; without a uri, or with one that names localhost,
\* the pause and the next iteration, else a new WebSocketApp
WsThreadLoop(w) ==
  /\ pc[w] = "loop"
  /\ IF stop_event \/ thread # w
     THEN /\ Goto(w, "dead")
          /\ UNCHANGED <<ws, app, uri, sent>>
     ELSE /\ uri' = LoadConnectionParams(config, uri)
          /\ IF uri' = NoUri \/ HasLocalhost(uri')
             THEN /\ Goto(w, "loop")
                  /\ UNCHANGED <<ws, app, sent>>
             ELSE /\ ws' = w
                  /\ app' = [app EXCEPT ![w] = "new"]
                  /\ sent' = [sent EXCEPT ![w] = NothingSent]
                  /\ Goto(w, "created")
  /\ UNCHANGED <<shared_status, status, response_queue, fsmVars, guardVars,
                 stop_event, thread, connected, subscribed, nthreads,
                 lockVars, histVars, txt, mainVars, obsVars, config,
                 ws_settings>>

\* 417-425: run_forever unless the reference is gone or a stop was signalled
WsThreadRun(w) ==
  /\ pc[w] = "created"
  /\ Goto(w, IF ws # None /\ ~stop_event THEN "connecting" ELSE "loop")
  /\ UNCHANGED <<clientVars, lockVars, histVars, txt, mainVars, obsVars,
                 netVars>>


\* run_forever: the connection attempt fails, on_error then on_close
ConnectFails(w) ==
  /\ pc[w] = "connecting"
  /\ Goto(w, "on_error")
  /\ UNCHANGED <<clientVars, lockVars, histVars, txt, mainVars, obsVars,
                 netVars>>

\* _resubscribe 353-375, called with _connected true and _subscribed false:
\* the requests sent once the subscribe request is written to the app
\* self._ws refers to; a send on an app with no socket open raises, which is
\* caught
Resubscribe(sends, apps) ==
  IF ws # None /\ apps[ws] = "open"
  THEN [sends EXCEPT ![ws].subscribe = @ + 1]
  ELSE sends

\* run_forever makes the connection and calls _on_open 276-294: the flags,
\* the query on the socket opened and, unless a restart is in progress,
\* _resubscribe
OnOpen(w) ==
  /\ pc[w] = "connecting"
  /\ app' = [app EXCEPT ![w] = "open"]
  /\ connected' = TRUE
  /\ subscribed' = FALSE
  /\ sent' = IF restart_in_progress
             THEN [sent EXCEPT ![w].query = @ + 1]
             ELSE Resubscribe([sent EXCEPT ![w].query = @ + 1], app')
  /\ Goto(w, "running")
  /\ UNCHANGED <<shared_status, status, response_queue, fsmVars, guardVars,
                 stop_event, thread, ws, nthreads, lockVars, histVars, txt,
                 mainVars, obsVars, config, uri, ws_settings>>

\* the socket fails while open: on_error, then the teardown's on_close
SocketError(w) ==
  /\ pc[w] = "running" /\ app[w] = "open"
  /\ Goto(w, "on_error")
  /\ UNCHANGED <<clientVars, lockVars, histVars, txt, mainVars, obsVars,
                 netVars>>

\* the socket is closed, by the remote side or by close() on the app
SocketClosed(w) ==
  /\ pc[w] = "running"
  /\ Goto(w, "on_close")
  /\ UNCHANGED <<clientVars, lockVars, histVars, txt, mainVars, obsVars,
                 netVars>>

\* _on_error 385-391
OnError(w) ==
  /\ pc[w] = "on_error" /\ status_lock = None
  /\ shared_status' = ClearedStatus
  /\ connected' = FALSE
  /\ subscribed' = FALSE
  /\ LogOther
  /\ Goto(w, "on_close")
  /\ UNCHANGED <<status, response_queue, fsmVars, guardVars, stop_event,
                 thread, ws, nthreads, app, lockVars, admitted, exposed, txt,
                 mainVars, obsVars,
                 netVars>>

\* a close after which the worker thread ends
OnCloseEndsThread(w) ==
  /\ pc[w] = "on_close" /\ status_lock = None
  /\ shared_status' = ClearedStatus
  /\ connected' = FALSE
  /\ subscribed' = FALSE
  /\ app' = [app EXCEPT ![w] = "none"]
  /\ sent' = [sent EXCEPT ![w] = NothingSent]
  /\ LogOther
  /\ Goto(w, "dead")
  /\ UNCHANGED <<status, response_queue, fsmVars, guardVars, stop_event,
                 thread, ws, nthreads, lockVars, admitted, exposed, txt,
                 mainVars, obsVars, config, uri, ws_settings>>

\* _on_close 377-383, called by the teardown that ends run_forever, after
\* which the app and what was sent on it are of no account; then the pause
\* of _ws_thread 425 before the next loop test
OnClose(w) ==
  /\ pc[w] = "on_close" /\ status_lock = None
  /\ shared_status' = ClearedStatus
  /\ connected' = FALSE
  /\ subscribed' = FALSE
  /\ app' = [app EXCEPT ![w] = "none"]
  /\ sent' = [sent EXCEPT ![w] = NothingSent]
  /\ LogOther
  /\ Goto(w, "loop")
  /\ UNCHANGED <<status, response_queue, fsmVars, guardVars, stop_event,
                 thread, ws, nthreads, lockVars, admitted, exposed, txt,
                 mainVars, obsVars, config, uri, ws_settings>>

\* _on_message 323-326: the acknowledgment of a subscribe request sent on
\* the worker's socket
OnMessageSubscribed(w) ==
  /\ pc[w] = "running" /\ app[w] = "open"
  /\ sent[w].subscribe > 0
  /\ subscribed' = TRUE
  /\ UNCHANGED <<shared_status, status, response_queue, fsmVars, guardVars,
                 stop_event, thread, ws, connected, nthreads, app, lockVars,
                 histVars, pc, stack, txt, mainVars, obsVars,
                 netVars>>

\* _on_message 309-315: notify_klippy_ready sets the flag, then full_restart
OnMessageReady(w) ==
  /\ pc[w] = "running" /\ app[w] = "open" /\ status_lock = None
  /\ shared_status' = Put(shared_status, "klipper_reboot", "True")
  /\ Call(w, "full_restart", "running")
  /\ UNCHANGED <<status, response_queue, fsmVars, guardVars, connVars,
                 lockVars, histVars, txt, mainVars, obsVars,
                 netVars>>

\* ------------------------------------------------------------ stop, start
\* stop 445-472: the stop signal; the socket is closed and the reference
\* dropped
StopSignal(t) ==
  /\ pc[t] = "stop"
  /\ stop_event' = TRUE
  /\ app' = CloseApp(app, ws)
  /\ ws' = None
  /\ Goto(t, "stop_join")
  /\ UNCHANGED <<shared_status, status, response_queue, fsmVars, guardVars,
                 thread, connected, subscribed, nthreads, lockVars, histVars,
                 txt, mainVars, obsVars,
                 netVars>>

\* 475-483: the join returns, because the worker ended or after its timeout,
\* and the connection flags and the thread reference are reset
StopJoin(t) ==
  /\ pc[t] = "stop_join"
  /\ connected' = FALSE
  /\ subscribed' = FALSE
  /\ thread' = None
  /\ Goto(t, "stop_reset")
  /\ UNCHANGED <<shared_status, status, response_queue, fsmVars, guardVars,
                 stop_event, ws, nthreads, app, lockVars, histVars, txt,
                 mainVars, obsVars,
                 netVars>>

\* a reset that forgets print_started
StopResetKeepsStarted(t) ==
  /\ pc[t] = "stop_reset" /\ status_lock = None
  /\ shared_status' = ClearedStatus
  /\ status' = PrinterStatus
  /\ NewRecord
  /\ LogOther
  /\ Return(t)
  /\ UNCHANGED <<response_queue, fsmVars, guardVars, connVars, lockVars,
                 admitted, exposed, txt, mainVars>>

\* 485-489: with self.status_lock, the shared dict and the status are reset
StopReset(t) ==
  /\ pc[t] = "stop_reset" /\ status_lock = None
  /\ shared_status' = ClearedStatus
  /\ status' = PrinterStatus
  /\ print_started' = FALSE
  /\ NewRecord
  /\ LogOther
  /\ Return(t)
  /\ UNCHANGED <<response_queue, manual_reset_active, print_time_announced,
                 guardVars, connVars, lockVars, admitted, exposed, txt,
                 mainVars>>

\* start 433-436: a live worker is stopped first
StartCheck(t) ==
  /\ pc[t] = "start"
  /\ IF thread # None /\ Alive(thread)
     THEN Call(t, "stop", "start_thread")
     ELSE Goto(t, "start_thread")
  /\ UNCHANGED <<clientVars, lockVars, histVars, txt, mainVars, obsVars,
                 netVars>>

\* 438-440: the stop signal is cleared and a new worker thread started
StartThread(t) ==
  /\ pc[t] = "start_thread"
  /\ nthreads < MaxThreads
  /\ LET new == WorkerName[nthreads + 1] IN
       /\ stop_event' = FALSE
       /\ thread' = new
       /\ nthreads' = nthreads + 1
       /\ pc' = [pc EXCEPT ![t] = Head(stack[t]), ![new] = "loop"]
       /\ stack' = [stack EXCEPT ![t] = Tail(@)]
  /\ UNCHANGED <<shared_status, status, response_queue, fsmVars, guardVars,
                 ws, connected, subscribed, app, lockVars, histVars, txt,
                 mainVars, obsVars,
                 netVars>>

\* ------------------------------------------------------------ reconfigure
\* reconfigure 494-496: the lock is taken by someone else, the call returns
ReconfigureSkip(t) ==
  /\ pc[t] = "reconfigure"
  /\ reconfig_lock # None
  /\ txt' = [txt EXCEPT ![t] = "skipped"]
  /\ Goto(t, "idle")
  /\ UNCHANGED <<clientVars, lockVars, histVars, mainVars, obsVars,
                 netVars>>

\* an entry that does not test the lock
ReconfigureEnterUnguarded(t) ==
  /\ pc[t] = "reconfigure"
  /\ reconfig_lock' = t
  /\ is_reconfiguring' = TRUE
  /\ Call(t, "stop", "reconfigure_start")
  /\ UNCHANGED <<shared_status, status, response_queue, fsmVars,
                 is_restarting, restart_in_progress, connVars, status_lock,
                 queue_lock, histVars, txt, mainVars, obsVars,
                 netVars>>

\* 494, 499-503: the lock is acquired without blocking, then stop()
ReconfigureEnter(t) ==
  /\ pc[t] = "reconfigure"
  /\ reconfig_lock = None
  /\ reconfig_lock' = t
  /\ is_reconfiguring' = TRUE
  /\ Call(t, "stop", "reconfigure_start")
  /\ UNCHANGED <<shared_status, status, response_queue, fsmVars,
                 is_restarting, restart_in_progress, connVars, status_lock,
                 queue_lock, histVars, txt, mainVars, obsVars,
                 netVars>>

\* 506-516: the pause, the reload of the connection and websocket
\* parameters, start(); an exception of _load_ws_config is caught at 515
ReconfigureStart(t) ==
  /\ pc[t] = "reconfigure_start"
  /\ uri' = LoadConnectionParams(config, uri)
  /\ IF WsConfigRaises(config)
     THEN /\ UNCHANGED ws_settings
          /\ Goto(t, "reconfigure_end")
     ELSE /\ ws_settings' = LoadWsConfig(config)
          /\ Call(t, "start", "reconfigure_end")
  /\ UNCHANGED <<clientVars, lockVars, histVars, txt, mainVars, obsVars,
                 config, sent>>

\* 517-519: finally, the flag is cleared and the lock released
ReconfigureEnd(t) ==
  /\ pc[t] = "reconfigure_end"
  /\ is_reconfiguring' = FALSE
  /\ reconfig_lock' = None
  /\ Goto(t, "idle")
  /\ UNCHANGED <<shared_status, status, response_queue, fsmVars,
                 is_restarting, restart_in_progress, connVars, status_lock,
                 queue_lock, histVars, txt, mainVars, obsVars,
                 netVars>>

\* load_config, config_manager.py 66-81, for a file whose websocket section
\* is null: self.config is replaced, _notify_callbacks raises on the section
\* at 103 and no callback is called
LoadConfigNull ==
  /\ config # NullWsConfig
  /\ config' = NullWsConfig
  /\ UNCHANGED <<clientVars, lockVars, histVars, pc, stack, txt, mainVars,
                 obsVars, uri, ws_settings, sent>>

\* main.py 130-136: the Config Provider holds cfg, and a configuration
\* watcher thread calls ws.reconfigure()
OnWsConfigChanged(t, cfg) ==
  /\ t \in Reconfigurers
  /\ pc[t] = "idle"
  /\ nthreads < MaxThreads
  /\ config' = cfg
  /\ txt' = [txt EXCEPT ![t] = None]
  /\ Goto(t, "reconfigure")
  /\ UNCHANGED <<clientVars, lockVars, histVars, mainVars, obsVars, uri,
                 ws_settings, sent>>

\* ----------------------------------------------------------- full_restart
\* full_restart 584-586: the test of the flag
FullRestartCheck(t) ==
  /\ pc[t] = "full_restart"
  /\ IF is_restarting THEN Return(t) ELSE Goto(t, "full_restart_set")
  /\ UNCHANGED <<clientVars, lockVars, histVars, txt, mainVars, obsVars,
                 netVars>>

\* 588-600: the flags and the stop signal are set, the socket closed
FullRestartSet(t) ==
  /\ pc[t] = "full_restart_set"
  /\ is_restarting' = TRUE
  /\ restart_in_progress' = TRUE
  /\ stop_event' = TRUE
  /\ app' = CloseApp(app, ws)
  /\ ws' = None
  /\ Goto(t, "full_restart_join")
  /\ UNCHANGED <<shared_status, status, response_queue, fsmVars,
                 is_reconfiguring, thread, connected, subscribed, nthreads,
                 lockVars, histVars, txt, mainVars, obsVars,
                 netVars>>

\* 602-620: the join of another thread returns or times out (the current
\* thread is not joined); thread reference and connection flags are reset,
\* the connection and websocket parameters reloaded. full_restart has no
\* handler: an exception of _load_ws_config leaves it there and is caught
\* by the caller, _on_message 350-351
FullRestartJoin(t) ==
  /\ pc[t] = "full_restart_join"
  /\ thread' = None
  /\ connected' = FALSE
  /\ subscribed' = FALSE
  /\ uri' = LoadConnectionParams(config, uri)
  /\ IF WsConfigRaises(config)
     THEN /\ UNCHANGED ws_settings
          /\ Return(t)
     ELSE /\ ws_settings' = LoadWsConfig(config)
          /\ Goto(t, "full_restart_status")
  /\ UNCHANGED <<shared_status, status, response_queue, fsmVars, guardVars,
                 stop_event, ws, nthreads, app, lockVars, histVars, txt,
                 mainVars, obsVars, config, sent>>

\* 622-627: with self.status_lock, the status record and its flags are reset
FullRestartStatus(t) ==
  /\ pc[t] = "full_restart_status" /\ status_lock = None
  /\ shared_status' = Put(shared_status, "connected", "False")
  /\ status' = PrinterStatus
  /\ print_started' = FALSE
  /\ manual_reset_active' = FALSE
  /\ print_time_announced' = FALSE
  /\ NewRecord
  /\ Goto(t, "full_restart_queue")
  /\ UNCHANGED <<response_queue, guardVars, connVars, lockVars, histVars,
                 txt, mainVars>>

\* a restart that empties current and leaves the pending texts
FullRestartQueueKeepsPending(t) ==
  /\ pc[t] = "full_restart_queue" /\ queue_lock = None
  /\ shared_status' = Put(shared_status, "response", None)
  /\ status' = [status EXCEPT !.gcode_response = None]
  /\ admitted' = <<>> /\ exposed' = <<>>
  /\ LogOther
  /\ Call(t, "start", "full_restart_end")
  /\ UNCHANGED <<response_queue, fsmVars, guardVars, connVars, lockVars, txt,
                 mainVars, obsVars,
                 netVars>>

\* 629-634: with self.queue_lock, the mailbox is emptied; then start()
FullRestartQueue(t) ==
  /\ pc[t] = "full_restart_queue" /\ queue_lock = None
  /\ response_queue' = <<>>
  /\ shared_status' = Put(shared_status, "response", None)
  /\ status' = [status EXCEPT !.gcode_response = None]
  /\ admitted' = <<>> /\ exposed' = <<>>
  /\ LogOther
  /\ Call(t, "start", "full_restart_end")
  /\ UNCHANGED <<fsmVars, guardVars, connVars, lockVars, txt, mainVars, obsVars,
                 netVars>>

\* 636-637: the flags are cleared
FullRestartEnd(t) ==
  /\ pc[t] = "full_restart_end"
  /\ restart_in_progress' = FALSE
  /\ is_restarting' = FALSE
  /\ Return(t)
  /\ UNCHANGED <<shared_status, status, response_queue, fsmVars,
                 is_reconfiguring, connVars, lockVars, histVars, txt,
                 mainVars, obsVars,
                 netVars>>

\* -------------------------------------------------------- the main thread
\* main.py 293: ws.start()
MainStart ==
  /\ pc[Main] = "idle"
  /\ lastcall = "none"
  /\ lastcall' = "start"
  /\ Call(Main, "start", "idle")
  /\ UNCHANGED <<clientVars, lockVars, histVars, txt, stops, solo, obsVars,
                 netVars>>

\* main.py 55-71: cleanup() calls ws.stop(), whether or not start() succeeded
MainStop ==
  /\ pc[Main] = "idle"
  /\ stops < MaxStops
  /\ stops' = stops + 1
  /\ lastcall' = IF lastcall \in {"stop", "stop_again"} THEN "stop_again"
                 ELSE "stop"
  /\ solo' = \A w \in Workers : ~Alive(w)
  /\ Call(Main, "stop", "idle")
  /\ UNCHANGED <<clientVars, lockVars, histVars, txt, obsVars,
                 netVars>>

\* ------------------------------------------------------ the status record
\* a state machine that does not mark a print left for STANDBY as cancelled
UpdateStateMachineNoCancel(st, started, manual, announced, new_state) ==
  LET old_state == st.print_state
      st1 == [st EXCEPT !.print_state = new_state]
  IN  IF new_state = PRINTING
      THEN <<[st1 EXCEPT !.completion_state = PENDING], TRUE, FALSE,
             IF old_state # PAUSED THEN FALSE ELSE announced>>
      ELSE IF new_state = COMPLETE
      THEN IF st.completion_state \notin {COMPLETE, CANCELLED}
           THEN <<[st1 EXCEPT !.completion_state = COMPLETE], FALSE, manual,
                  FALSE>>
           ELSE <<st1, started, manual, FALSE>>
      ELSE IF new_state = STANDBY
      THEN <<st1, FALSE, manual, FALSE>>
      ELSE <<st1, started, manual, announced>>

\* a state machine that completes a print only from the PRINTING state
UpdateStateMachineDirectOnly(st, started, manual, announced, new_state) ==
  LET old_state == st.print_state
      st1 == [st EXCEPT !.print_state = new_state]
  IN  IF new_state = PRINTING
      THEN <<[st1 EXCEPT !.completion_state = PENDING], TRUE, FALSE,
             IF old_state # PAUSED THEN FALSE ELSE announced>>
      ELSE IF new_state = COMPLETE
      THEN IF old_state = PRINTING
           THEN <<[st1 EXCEPT !.completion_state = COMPLETE], FALSE, manual,
                  FALSE>>
           ELSE <<st1, started, manual, FALSE>>
      ELSE IF new_state = STANDBY
      THEN IF started
           THEN <<[st1 EXCEPT !.completion_state = CANCELLED], FALSE, manual,
                  FALSE>>
           ELSE <<st1, started, manual, FALSE>>
      ELSE <<st1, started, manual, announced>>

\* a state machine that clears the announced flag on every entry to PRINTING
UpdateStateMachineAlwaysClears(st, started, manual, announced, new_state) ==
  LET st1 == [st EXCEPT !.print_state = new_state]
  IN  IF new_state = PRINTING
      THEN <<[st1 EXCEPT !.completion_state = PENDING], TRUE, FALSE, FALSE>>
      ELSE IF new_state = COMPLETE
      THEN IF st.completion_state \notin {COMPLETE, CANCELLED}
           THEN <<[st1 EXCEPT !.completion_state = COMPLETE], FALSE, manual,
                  FALSE>>
           ELSE <<st1, started, manual, FALSE>>
      ELSE IF new_state = STANDBY
      THEN IF started
           THEN <<[st1 EXCEPT !.completion_state = CANCELLED], FALSE, manual,
                  FALSE>>
           ELSE <<st1, started, manual, FALSE>>
      ELSE <<st1, started, manual, announced>>

\* a state machine that leaves completion_state alone on entering PRINTING
UpdateStateMachineKeepsCompletion(st, started, manual, announced, new_state) ==
  LET old_state == st.print_state
      st1 == [st EXCEPT !.print_state = new_state]
  IN  IF new_state = PRINTING
      THEN <<st1, TRUE, FALSE,
             IF old_state # PAUSED THEN FALSE ELSE announced>>
      ELSE IF new_state = COMPLETE
      THEN IF st.completion_state \notin {COMPLETE, CANCELLED}
           THEN <<[st1 EXCEPT !.completion_state = COMPLETE], FALSE, manual,
                  FALSE>>
           ELSE <<st1, started, manual, FALSE>>
      ELSE IF new_state = STANDBY
      THEN IF started
           THEN <<[st1 EXCEPT !.completion_state = CANCELLED], FALSE, manual,
                  FALSE>>
           ELSE <<st1, started, manual, FALSE>>
      ELSE <<st1, started, manual, announced>>

\* a state machine whose COMPLETE leaves print_started set
UpdateStateMachineKeepsStarted(st, started, manual, announced, new_state) ==
  LET old_state == st.print_state
      st1 == [st EXCEPT !.print_state = new_state]
  IN  IF new_state = PRINTING
      THEN <<[st1 EXCEPT !.completion_state = PENDING], TRUE, FALSE,
             IF old_state # PAUSED THEN FALSE ELSE announced>>
      ELSE IF new_state = COMPLETE
      THEN IF st.completion_state \notin {COMPLETE, CANCELLED}
           THEN <<[st1 EXCEPT !.completion_state = COMPLETE], started, manual,
                  FALSE>>
           ELSE <<st1, started, manual, FALSE>>
      ELSE IF new_state = STANDBY
      THEN IF started
           THEN <<[st1 EXCEPT !.completion_state = CANCELLED], FALSE, manual,
                  FALSE>>
           ELSE <<st1, started, manual, FALSE>>
      ELSE <<st1, started, manual, announced>>

\* a state machine whose STANDBY marks the run cancelled and leaves
\* print_started set
UpdateStateMachineCancelKeepsStarted(st, started, manual, announced, new_state) ==
  LET old_state == st.print_state
      st1 == [st EXCEPT !.print_state = new_state]
  IN  IF new_state = PRINTING
      THEN <<[st1 EXCEPT !.completion_state = PENDING], TRUE, FALSE,
             IF old_state # PAUSED THEN FALSE ELSE announced>>
      ELSE IF new_state = COMPLETE
      THEN IF st.completion_state \notin {COMPLETE, CANCELLED}
           THEN <<[st1 EXCEPT !.completion_state = COMPLETE], FALSE, manual,
                  FALSE>>
           ELSE <<st1, started, manual, FALSE>>
      ELSE IF new_state = STANDBY
      THEN IF started
           THEN <<[st1 EXCEPT !.completion_state = CANCELLED], started, manual,
                  FALSE>>
           ELSE <<st1, started, manual, FALSE>>
      ELSE <<st1, started, manual, announced>>

\* _update_state_machine 172-194, on the record st with flags started and
\* announced: <<status, print_started, manual_reset_active, announced>>
UpdateStateMachine(st, started, manual, announced, new_state) ==
  LET old_state == st.print_state
      st1 == [st EXCEPT !.print_state = new_state]
  IN  IF new_state = PRINTING
      THEN <<[st1 EXCEPT !.completion_state = PENDING], TRUE, FALSE,
             IF old_state # PAUSED THEN FALSE ELSE announced>>
      ELSE IF new_state = COMPLETE
      THEN IF st.completion_state \notin {COMPLETE, CANCELLED}
           THEN <<[st1 EXCEPT !.completion_state = COMPLETE], FALSE, manual,
                  FALSE>>
           ELSE <<st1, started, manual, FALSE>>
      ELSE IF new_state = STANDBY
      THEN IF started
           THEN <<[st1 EXCEPT !.completion_state = CANCELLED], FALSE, manual,
                  FALSE>>
           ELSE <<st1, started, manual, FALSE>>
      ELSE <<st1, started, manual, announced>>

\* int(progress * 100), for a progress given in thousandths
ToPercent(progress) == progress \div 10

\* a remaining time that is not floored at zero
RemainingTimeUnfloored(progress_percent, elapsed_time) ==
  IF progress_percent > 0 /\ elapsed_time > 0
  THEN (elapsed_time * 100) \div progress_percent - elapsed_time
  ELSE 0

\* _calculate_remaining_time 201-211: elapsed / (percent / 100.0) - elapsed,
\* floored at zero (the frames of StatusFrames make the division exact)
RemainingTime(progress_percent, elapsed_time) ==
  IF progress_percent > 0 /\ elapsed_time > 0
  THEN LET total_time == (elapsed_time * 100) \div progress_percent
       IN  IF total_time - elapsed_time > 0 THEN total_time - elapsed_time
           ELSE 0
  ELSE 0

\* a computation that never uses the cache
CalculateRemainingTimeAnew(st, progress_percent, elapsed_time) ==
  <<[st EXCEPT !.last_progress = progress_percent,
               !.cached_remaining =
                  RemainingTime(progress_percent, elapsed_time)],
    RemainingTime(progress_percent, elapsed_time)>>

\* a computation that leaves the cache key as it was
CalculateRemainingTimeKeepsKey(st, progress_percent, elapsed_time) ==
  IF /\ progress_percent = st.last_progress
     /\ st.cached_remaining # NoCache
  THEN <<st, st.cached_remaining>>
  ELSE <<[st EXCEPT !.cached_remaining =
                       RemainingTime(progress_percent, elapsed_time)],
         RemainingTime(progress_percent, elapsed_time)>>

\* _calculate_remaining_time 196-211: <<the record, the value returned>>
CalculateRemainingTime(st, progress_percent, elapsed_time) ==
  IF /\ progress_percent = st.last_progress
     /\ st.cached_remaining # NoCache
  THEN <<st, st.cached_remaining>>
  ELSE <<[st EXCEPT !.last_progress = progress_percent,
                    !.cached_remaining =
                       RemainingTime(progress_percent, elapsed_time)],
         RemainingTime(progress_percent, elapsed_time)>>

\* a field update that writes whatever value the frame carries
UpdateStatusFieldAlways(st, field_name, new_value) ==
  IF new_value # Absent
  THEN <<[st EXCEPT ![field_name] = new_value], TRUE>>
  ELSE <<st, FALSE>>

\* _update_status_field 213-221: <<the record, the value returned>>
UpdateStatusField(st, field_name, new_value) ==
  IF new_value # Absent /\ st[field_name] # new_value
  THEN <<[st EXCEPT ![field_name] = new_value], TRUE>>
  ELSE <<st, FALSE>>

\* _extract_status_from_message 223-274 on the record st and the flags, for
\* the frame msg: its keys are print_stats.state, the progress (of
\* print_stats or else of display_status), print_stats.print_duration,
\* heater_bed.temperature and a key the client does not know. For a progress
\* that is not a number, int(progress * 100) at 237 raises, after the state
\* machine has run; the exception ends _on_message at 350-351. enters is
\* what the comparison at 226-227 gave: the state machine runs on it
ExtractStatusFromMessage(st, started, manual, announced, msg, enters) ==
  LET sm == IF enters
            THEN UpdateStateMachine(st, started, manual, announced, msg.state)
            ELSE <<st, started, manual, announced>>
      f1 == IF msg.progress # Absent
            THEN UpdateStatusField(sm[1], "progress_percent",
                                   ToPercent(msg.progress))
            ELSE <<sm[1], FALSE>>
      f2 == UpdateStatusField(f1[1], "elapsed_time", msg.print_duration)
      c2 == enters \/ f1[2] \/ f2[2]
      st2 == f2[1]
      rt == CalculateRemainingTime(st2, st2.progress_percent,
                                   st2.elapsed_time)
      st3 == IF c2 \/ st2.progress_percent # st2.last_progress
             THEN [rt[1] EXCEPT !.remaining_time = rt[2]]
             ELSE st2
      f3 == UpdateStatusField(st3, "bed_temp", msg.temperature)
  IN  IF msg.progress = Malformed
      THEN [status |-> sm[1], print_started |-> sm[2],
            manual_reset_active |-> sm[3], print_time_announced |-> sm[4],
            changed |-> enters, raised |-> TRUE]
      ELSE [status |-> f3[1], print_started |-> sm[2],
            manual_reset_active |-> sm[3], print_time_announced |-> sm[4],
            changed |-> c2 \/ f3[2], raised |-> FALSE]

\* the frames of the end-to-end example: printing; progress 0.5 with a print
\* duration of 100; complete
EndToEnd ==
  <<StateFrame(PRINTING),
    [NoFrame EXCEPT !.progress = 500, !.print_duration = 100],
    StateFrame(COMPLETE)>>

\* the frames received: progress in thousandths (0.505 and 0.5 are the same
\* percent, 2.0 is beyond the end), durations in seconds
StatusFrames ==
  [state : {None, PRINTING, COMPLETE},
   progress : {Absent, 250, 500, 505, 2000},
   print_duration : {Absent, 100, 200},
   temperature : {Absent, 60},
   toolhead : {Absent, 1}]

\* frames well-formed and not: a state, a state with a progress that is not
\* a number, such a progress alone, a progress, a key the client does not
\* know
DecodeFrames ==
  {StateFrame(PRINTING), StateFrame(COMPLETE),
   [StateFrame(PRINTING) EXCEPT !.progress = Malformed],
   [NoFrame EXCEPT !.progress = Malformed],
   [NoFrame EXCEPT !.progress = 500],
   [NoFrame EXCEPT !.toolhead = 1]}

\* _on_message 328-339: a status frame (a notify_status_update or the result
\* of the query) reaches the worker; 226-227: its state is compared with the
\* stored one, without the status lock
OnMessageStatus(w, msg) ==
  /\ pc[w] = "running" /\ app[w] = "open"
  /\ msg.state # None => Len(trail) < MaxUpdates
  /\ frame' = [frame EXCEPT ![w] = msg]
  /\ differs' = [differs EXCEPT
                   ![w] = msg.state # None /\ msg.state # status.print_state]
  /\ Goto(w, "status")
  /\ UNCHANGED <<clientVars, lockVars, histVars, txt, mainVars, trail,
                 changed, e2e, held, seen, procVars, netVars>>

\* 228-274: the state machine, if the comparison said so, and the field
\* updates, whose writes are made under the status lock
ExtractStatus(w) ==
  /\ pc[w] = "status" /\ status_lock = None
  /\ LET msg == frame[w]
         enters == differs[w]
         r == ExtractStatusFromMessage(status, print_started,
                                       manual_reset_active,
                                       print_time_announced, msg, enters)
     IN  /\ status' = r.status
         /\ print_started' = r.print_started
         /\ manual_reset_active' = r.manual_reset_active
         /\ print_time_announced' = r.print_time_announced
         /\ changed' = IF r.raised THEN changed ELSE r.changed
         /\ trail' = IF enters THEN Append(trail, msg.state) ELSE trail
         /\ estimates' = IF /\ enters /\ msg.state = PRINTING
                            /\ status.print_state # PAUSED
                         THEN 0 ELSE estimates
         /\ e2e' = IF e2e < Len(EndToEnd) /\ msg = EndToEnd[e2e + 1]
                   THEN e2e + 1 ELSE Len(EndToEnd) + 1
  /\ frame' = [frame EXCEPT ![w] = NoFrame]
  /\ differs' = [differs EXCEPT ![w] = FALSE]
  /\ Goto(w, "running")
  /\ UNCHANGED <<shared_status, response_queue, guardVars, connVars, lockVars,
                 histVars, txt, mainVars, held, seen, monitor, filename,
                 netVars>>

\* set_print_time_announced 158-160, as print_time_notifier.py 114 and
\* progress_notifier.py 173 call it after an announcement (True) and
\* print_time_notifier.py 46-121 to hand over (False)
SetPrintTimeAnnounced(c, value) ==
  /\ pc[c] = "idle"
  /\ print_time_announced # value
  /\ print_time_announced' = value
  /\ UNCHANGED <<shared_status, status, response_queue, print_started,
                 manual_reset_active, guardVars, connVars, lockVars, histVars,
                 pc, stack, txt, mainVars, obsVars,
                 netVars>>

\* main.py 145-146: with status_lock, status = ws.get_state(); get_state
\* 556-557 returns self.status itself
GetState(c) ==
  /\ pc[c] = "idle" /\ status_lock = None
  /\ held' = "live"
  /\ seen' = status
  /\ UNCHANGED <<clientVars, lockVars, histVars, pc, stack, txt, mainVars,
                 trail, changed, e2e, frame, runVars, procVars,
                 netVars>>

\* ----------------------------------------------- the mailbox's consumers
\* parking_notifier.py 14, 48-62: the identifiers G28_ID_RE matches
G28Ids ==
  {"G28_START", "G28_END", "G28_X_START", "G28_X_END", "G28_Y_START",
   "G28_Y_END", "G28_Z_START", "G28_Z_END"}

\* the identifiers of a section whose templates hold the text
IdsOf(section, text) ==
  IF section \in DOMAIN ResponseCfg
  THEN {resp_id \in DOMAIN ResponseCfg[section] :
          text \in ResponseCfg[section][resp_id]}
  ELSE {}

\* ParkingNotifier.check, parking_notifier.py 21-96: the text is cleared
\* when an identifier of the parking section holds it and the identifier
\* is one of G28's
ParkingClears(text) == IdsOf("parking", text) \cap G28Ids # {}

\* BedMeshNotifier.check, bed_mesh_notifier.py 65-141: the text is cleared
\* when an identifier of the bed_mesh section holds it and the identifier
\* ends in _START or _END
BedMeshIds == {"BED_MESH_START", "BED_MESH_END"}
BedMeshClears(text) == IdsOf("bed_mesh", text) \cap BedMeshIds # {}

\* CustomNotifier.check, custom_notifier.py 13-83: the text is cleared when
\* an identifier of the custom_response section holds it
CustomClears(text) == IdsOf("custom_response", text) # {}

\* main.py 160-162: the three checks of one poll; one of them finds the
\* current text its own and calls clear_response
NotifierClear(c) ==
  /\ Current # None
  /\ ParkingClears(Current) \/ BedMeshClears(Current) \/ CustomClears(Current)
  /\ ClrLockStatus(c)

\* ------------------------------------------------- the initial estimate
\* the values of print_stats.filename: a name without a time and a name
\* that the regex of the time_pattern section matches
Filenames == {"part.gcode", "part_2h30m.gcode"}
HasTimePattern(name) == name = "part_2h30m.gcode"

\* _extract_status_from_message 254-256: print_stats.filename of a status
\* frame is written as it comes
OnMessageFilename(w, name) ==
  /\ pc[w] = "running" /\ app[w] = "open" /\ status_lock = None
  /\ filename # name
  /\ filename' = name
  /\ UNCHANGED <<clientVars, lockVars, histVars, pc, stack, txt, mainVars,
                 trail, changed, e2e, held, seen, frame, runVars, monitor,
                 estimates, netVars>>

\* status_processor, main.py 145-153: the status is fetched under the status
\* lock and, unless the print state is unknown, handed to the notifiers
StatusProcessorPoll(c) ==
  /\ pc[c] = "idle" /\ status_lock = None
  /\ status.print_state # UNKNOWN_STR
  /\ Goto(c, "print_time")
  /\ UNCHANGED <<clientVars, lockVars, histVars, txt, mainVars, obsVars,
                 netVars>>

\* PrintTimeNotifier.check, print_time_notifier.py 25-121, with the
\* initial estimate switched on and its source "filename": without a
\* filename, or with a filename the pattern does not match, the flag is
\* set to False to hand over to ProgressNotifier; with a match the time is
\* announced and the flag set
PrintTimeNotifierCheck(c) ==
  /\ pc[c] = "print_time"
  /\ IF status.print_state # PRINTING
     THEN UNCHANGED <<print_time_announced, estimates>>
     ELSE IF filename = None
     THEN print_time_announced' = FALSE /\ UNCHANGED estimates
     ELSE IF print_time_announced
     THEN UNCHANGED <<print_time_announced, estimates>>
     ELSE IF ~HasTimePattern(filename)
     THEN print_time_announced' = FALSE /\ UNCHANGED estimates
     ELSE /\ estimates < MaxEstimates
          /\ print_time_announced' = TRUE
          /\ estimates' = estimates + 1
  /\ Goto(c, "progress")
  /\ UNCHANGED <<shared_status, status, response_queue, print_started,
                 manual_reset_active, guardVars, connVars, lockVars, histVars,
                 txt, mainVars, trail, changed, e2e, held, seen, frame,
                 runVars, monitor, filename, netVars>>

\* ProgressNotifier.check, progress_notifier.py 27-55, and
\* _notify_initial_estimate 151-174: at one percent, with time elapsed and
\* the flag not set, the computed estimate is announced and the flag set
ProgressNotifierCheck(c) ==
  /\ pc[c] = "progress"
  /\ IF /\ status.print_state = PRINTING
        /\ status.elapsed_time > 0
        /\ status.progress_percent = 1
        /\ ~print_time_announced
     THEN /\ estimates < MaxEstimates
          /\ print_time_announced' = TRUE
          /\ estimates' = estimates + 1
     ELSE UNCHANGED <<print_time_announced, estimates>>
  /\ Goto(c, "idle")
  /\ UNCHANGED <<shared_status, status, response_queue, print_started,
                 manual_reset_active, guardVars, connVars, lockVars, histVars,
                 txt, mainVars, trail, changed, e2e, held, seen, frame,
                 runVars, monitor, filename, netVars>>

\* the frames of a run: printing, paused, progress of one and of two percent
EstimateFrames ==
  {StateFrame(PRINTING), StateFrame(PAUSED),
   [NoFrame EXCEPT !.progress = 10, !.print_duration = 100],
   [NoFrame EXCEPT !.progress = 20, !.print_duration = 200]}

\* ------------------------------------------------------ lifecycle notices
\* the keys of shared_status that _on_message sets for a notice: 306, 312,
\* 320
LifecycleFlags == {"klipper_disconnected", "klipper_reboot", "mcu_disconnected"}

\* _on_message 304-307 and 317-321: notify_klippy_shutdown and
\* notify_klippy_disconnected set their flag under the status lock
OnMessageNotice(w, key) ==
  /\ pc[w] = "running" /\ app[w] = "open" /\ status_lock = None
  /\ shared_status' = Put(shared_status, key, "True")
  /\ UNCHANGED <<status, response_queue, fsmVars, guardVars, connVars,
                 lockVars, histVars, pc, stack, txt, mainVars, obsVars,
                 netVars>>

\* klipper_monitor, main.py 182-185 and 188-215: the three flags are read
\* under the status lock; those set and not yet announced are to be
\* announced, and the announced marks of the others are dropped
MonitorPoll ==
  /\ monitor.pending = {} /\ status_lock = None
  /\ LET read == {k \in LifecycleFlags : Get(shared_status, k) = "True"}
     IN  monitor' = [pending |-> read \ monitor.notified, notified |-> read]
  /\ UNCHANGED <<clientVars, lockVars, histVars, pc, stack, txt, mainVars,
                 trail, changed, e2e, held, seen, frame, runVars, estimates,
                 filename,
                 netVars>>

\* the order in which klipper_monitor handles the flags it read
MonitorOrder == <<"klipper_disconnected", "klipper_reboot", "mcu_disconnected">>
MonitorFirst(pending) ==
  MonitorOrder[CHOOSE i \in 1..3 :
                 /\ MonitorOrder[i] \in pending
                 /\ \A j \in 1..(i - 1) : MonitorOrder[j] \notin pending]

\* main.py 188-207: the event is announced and its flag is set to False
\* under the status lock
MonitorAnnounce ==
  /\ monitor.pending # {} /\ status_lock = None
  /\ LET key == MonitorFirst(monitor.pending)
     IN  /\ shared_status' = Put(shared_status, key, "False")
         /\ monitor' = [monitor EXCEPT !.pending = @ \ {key}]
  /\ UNCHANGED <<status, response_queue, fsmVars, guardVars, connVars,
                 lockVars, histVars, pc, stack, txt, mainVars, trail, changed,
                 e2e, held, seen, frame, runVars, estimates, filename,
                 netVars>>

\* --------------------------------------------------------- specifications
\* the steps of a worker thread that do not depend on the frame received
WorkerStep(w) ==
  \/ WsThreadLoop(w)
  \/ WsThreadRun(w)
  \/ ConnectFails(w)
  \/ OnOpen(w)
  \/ SocketError(w)
  \/ SocketClosed(w)
  \/ OnError(w)
  \/ OnClose(w)

\* stop and start, by whichever thread called them
StopStartStep(t) ==
  \/ StopSignal(t)
  \/ StopJoin(t)
  \/ StopReset(t)
  \/ StartCheck(t)
  \/ StartThread(t)

FullRestartStep(t) ==
  \/ OnMessageReady(t)
  \/ FullRestartCheck(t)
  \/ FullRestartSet(t)
  \/ FullRestartJoin(t)
  \/ FullRestartStatus(t)
  \/ FullRestartQueue(t)
  \/ FullRestartEnd(t)

MailboxStep ==
  \/ \E w \in Workers : \E text \in Texts : OnMessageText(w, text)
  \/ \E w \in Workers : HnrMatch(w)
  \/ \E w \in Workers : HnrLockQueue(w)
  \/ \E w \in Workers : HnrCheck(w)
  \/ \E w \in Workers : HnrLockStatus(w)
  \/ \E w \in Workers : HnrWrite(w)
  \/ PeekLock(Cons)
  \/ PeekRead(Cons)
  \/ ClrLockStatus(Cons)
  \/ ClrLockQueue(Cons)
  \/ ClrBody(Cons)

\* reconfigure(), called for a change that leaves the klipper host and the
\* reconnect delay as they are
ReconfigureStep(t) ==
  \/ OnWsConfigChanged(t, config)
  \/ ReconfigureSkip(t)
  \/ ReconfigureEnter(t)
  \/ ReconfigureStart(t)
  \/ ReconfigureEnd(t)

(* Spec: the mailbox as main.py uses it: the main thread starts the client  *)
(* and stops it at cleanup, the worker receives text events, the status     *)
(* processor polls and clears the mailbox.                                  *)
Next ==
  \/ MainStart
  \/ MainStop
  \/ \E w \in Workers : WorkerStep(w)
  \/ \E t \in Threads : StopStartStep(t)
  \/ MailboxStep

Spec == Init /\ [][Next]_vars

(* SpecReconf: the configuration watcher threads call reconfigure() while  *)
(* the worker started by the main thread runs.                              *)
NextReconf ==
  \/ MainStart
  \/ \E w \in Workers : WorkerStep(w)
  \/ \E t \in Threads : StopStartStep(t)
  \/ \E t \in Reconfigurers : ReconfigureStep(t)

SpecReconf == Init /\ [][NextReconf]_vars

(* SpecLife: reconfigure() and the full restart a readiness notice triggers *)
(* in a worker, together.                                                   *)
NextLife ==
  \/ MainStart
  \/ \E w \in Workers : WorkerStep(w)
  \/ \E t \in Threads : StopStartStep(t)
  \/ \E t \in Reconfigurers : ReconfigureStep(t)
  \/ \E w \in Workers : FullRestartStep(w)

SpecLife == Init /\ [][NextLife]_vars

(* SpecStop: the main thread starts the client and calls stop(), before or  *)
(* after the start and repeatedly, while the worker receives                *)
(* acknowledgments and state updates and the status processor takes the     *)
(* status record with get_state().                                          *)
NextStop ==
  \/ MainStart
  \/ MainStop
  \/ \E w \in Workers : WorkerStep(w)
  \/ \E t \in Threads : StopStartStep(t)
  \/ \E w \in Workers : OnMessageSubscribed(w)
  \/ \E w \in Workers : \E s \in StateInputs :
       OnMessageStatus(w, StateFrame(s))
  \/ \E w \in Workers : ExtractStatus(w)
  \/ GetState(Cons)

SpecStop == Init /\ [][NextStop]_vars

\* the values of print_stats.state: those the state machine knows, and
\* "cancelled", which it has no branch for
PrintStates == {PRINTING, PAUSED, COMPLETE, STANDBY, ERROR, CANCELLED}

(* SpecFsm: the worker receives print-state updates of every kind, across   *)
(* reconnections, while a notifier sets and clears the announced flag.      *)
NextFsm ==
  \/ MainStart
  \/ StartCheck(Main)
  \/ StartThread(Main)
  \/ \E w \in Workers : WorkerStep(w)
  \/ \E w \in Workers : \E s \in PrintStates :
       OnMessageStatus(w, StateFrame(s))
  \/ \E w \in Workers : ExtractStatus(w)
  \/ \E v \in BOOLEAN : SetPrintTimeAnnounced(Cons, v)

SpecFsm == Init /\ [][NextFsm]_vars

(* SpecFields: the worker receives partial status frames: any subset of the *)
(* keys, with values equal to or different from the stored ones.            *)
NextFields ==
  \/ MainStart
  \/ StartCheck(Main)
  \/ StartThread(Main)
  \/ \E w \in Workers : WorkerStep(w)
  \/ \E w \in Workers : \E msg \in StatusFrames : OnMessageStatus(w, msg)
  \/ \E w \in Workers : ExtractStatus(w)

SpecFields == Init /\ [][NextFields]_vars

(* SpecDecode: the worker receives status frames, some of them with a value *)
(* it cannot convert.                                                     *)
NextDecode ==
  \/ MainStart
  \/ StartCheck(Main)
  \/ StartThread(Main)
  \/ \E w \in Workers : WorkerStep(w)
  \/ \E w \in Workers : \E msg \in DecodeFrames : OnMessageStatus(w, msg)
  \/ \E w \in Workers : ExtractStatus(w)

SpecDecode == Init /\ [][NextDecode]_vars

(* SpecConfig: the client is constructed with any configuration, and the   *)
(* configuration changes while it runs: each change makes a watcher thread *)
(* call reconfigure().                                                     *)
NextConfig ==
  \/ MainStart
  \/ \E w \in Workers : WorkerStep(w)
  \/ \E t \in Threads : StopStartStep(t)
  \/ \E t \in Reconfigurers : \E cfg \in Configs : OnWsConfigChanged(t, cfg)
  \/ \E t \in Reconfigurers : ReconfigureSkip(t)
  \/ \E t \in Reconfigurers : ReconfigureEnter(t)
  \/ \E t \in Reconfigurers : ReconfigureStart(t)
  \/ \E t \in Reconfigurers : ReconfigureEnd(t)

SpecConfig == InitAnyConfig /\ [][NextConfig]_vars

(* SpecHeal: connection attempts fail and sockets close while the client   *)
(* runs and is reconfigured, which stops and restarts it; a worker thread  *)
(* that can take a step of its loop or of a callback eventually takes it.  *)
NextHeal ==
  \/ MainStart
  \/ \E w \in Workers : WorkerStep(w)
  \/ \E t \in Threads : StopStartStep(t)
  \/ OnWsConfigChanged(CfgA, config)
  \/ ReconfigureEnter(CfgA)
  \/ ReconfigureStart(CfgA)
  \/ ReconfigureEnd(CfgA)

WorkerFairness ==
  \A w \in Workers :
    /\ WF_vars(WsThreadLoop(w))
    /\ WF_vars(WsThreadRun(w))
    /\ WF_vars(OnError(w))
    /\ WF_vars(OnClose(w))

SpecHeal == Init /\ [][NextHeal]_vars /\ WorkerFairness

(* SpecAck: readiness notices make the worker restart the client, and the  *)
(* subscribe requests sent are acknowledged.                               *)
NextAck ==
  \/ MainStart
  \/ \E t \in Threads : StartCheck(t)
  \/ \E t \in Threads : StartThread(t)
  \/ \E w \in Workers : WorkerStep(w)
  \/ \E w \in Workers : FullRestartStep(w)
  \/ \E w \in Workers : OnMessageSubscribed(w)

SpecAck == Init /\ [][NextAck]_vars

(* SpecRace: a configuration watcher calls reconfigure() while the worker  *)
(* receives print-state updates; a worker whose socket opened after the    *)
(* stop signal keeps receiving them next to its successor.                 *)
NextRace ==
  \/ MainStart
  \/ \E w \in Workers : WorkerStep(w)
  \/ \E t \in Threads : StopStartStep(t)
  \/ OnWsConfigChanged(CfgA, config)
  \/ ReconfigureEnter(CfgA)
  \/ ReconfigureStart(CfgA)
  \/ ReconfigureEnd(CfgA)
  \/ \E w \in Workers : OnMessageStatus(w, StateFrame(PRINTING))
  \/ \E w \in Workers : ExtractStatus(w)

SpecRace == Init /\ [][NextRace]_vars

(* SpecRun: the worker receives print-state updates while the main thread *)
(* stops the client and a readiness notice makes the worker restart it;    *)
(* sockets close and are reopened, connection failures aside.              *)
NextRun ==
  \/ MainStart
  \/ MainStop
  \/ \E w \in Workers : WsThreadLoop(w)
  \/ \E w \in Workers : WsThreadRun(w)
  \/ \E w \in Workers : OnOpen(w)
  \/ \E w \in Workers : SocketClosed(w)
  \/ \E w \in Workers : OnClose(w)
  \/ StopStartStep(Main)
  \/ \E w \in Workers : StartCheck(w)
  \/ \E w \in Workers : StartThread(w)
  \/ \E w \in Workers : FullRestartStep(w)
  \/ \E w \in Workers : \E s \in StateInputs :
       OnMessageStatus(w, StateFrame(s))
  \/ \E w \in Workers : ExtractStatus(w)

SpecRun == Init /\ [][NextRun]_vars

(* SpecNotice: the worker receives lifecycle notices, the readiness       *)
(* notice making it restart the client, while klipper_monitor polls the   *)
(* flags.                                                                 *)
NextNotice ==
  \/ MainStart
  \/ \E t \in Threads : StartCheck(t)
  \/ \E t \in Threads : StartThread(t)
  \/ \E w \in Workers : WorkerStep(w)
  \/ \E w \in Workers : FullRestartStep(w)
  \/ \E w \in Workers :
       \E key \in {"klipper_disconnected", "mcu_disconnected"} :
         OnMessageNotice(w, key)
  \/ MonitorPoll
  \/ MonitorAnnounce

SpecNotice == Init /\ [][NextNotice]_vars

(* SpecEstimate: the worker receives the print state, the progress and   *)
(* the filename of a run while the status processor polls and hands the   *)
(* status to PrintTimeNotifier and ProgressNotifier.                      *)
NextEstimate ==
  \/ MainStart
  \/ StartCheck(Main)
  \/ StartThread(Main)
  \/ \E w \in Workers : WorkerStep(w)
  \/ \E w \in Workers : \E msg \in EstimateFrames : OnMessageStatus(w, msg)
  \/ \E w \in Workers : ExtractStatus(w)
  \/ \E w \in Workers : \E name \in Filenames : OnMessageFilename(w, name)
  \/ StatusProcessorPoll(Cons)
  \/ PrintTimeNotifierCheck(Cons)
  \/ ProgressNotifierCheck(Cons)

SpecEstimate == Init /\ [][NextEstimate]_vars

(* SpecConsume: the worker receives the texts of the parking templates    *)
(* while the status processor polls the notifiers; the threads keep        *)
(* running.                                                                *)
NextConsume ==
  \/ MainStart
  \/ StartCheck(Main)
  \/ StartThread(Main)
  \/ \E w \in Workers : WorkerStep(w)
  \/ \E w \in Workers : \E text \in TextsParking : OnMessageText(w, text)
  \/ \E w \in Workers : HnrMatch(w)
  \/ \E w \in Workers : HnrLockQueue(w)
  \/ \E w \in Workers : HnrCheck(w)
  \/ \E w \in Workers : HnrLockStatus(w)
  \/ \E w \in Workers : HnrWrite(w)
  \/ NotifierClear(Cons)
  \/ ClrLockQueue(Cons)
  \/ ClrBody(Cons)

ConsumeFairness ==
  /\ WF_vars(NotifierClear(Cons))
  /\ WF_vars(ClrLockQueue(Cons))
  /\ WF_vars(ClrBody(Cons))
  /\ \A w \in Workers :
       /\ WF_vars(HnrMatch(w))
       /\ WF_vars(HnrLockQueue(w))
       /\ WF_vars(HnrCheck(w))
       /\ WF_vars(HnrLockStatus(w))
       /\ WF_vars(HnrWrite(w))

SpecConsume == Init /\ [][NextConsume]_vars /\ ConsumeFairness

(* SpecAbort: the configuration file is saved with a null websocket       *)
(* section; a later change of the klipper section makes the watcher call   *)
(* reconfigure(), and a readiness notice makes the worker restart the      *)
(* client.                                                                 *)
NextAbort ==
  \/ MainStart
  \/ \E t \in Threads : StopStartStep(t)
  \/ \E w \in Workers : WorkerStep(w)
  \/ \E w \in Workers : FullRestartStep(w)
  \/ LoadConfigNull
  \/ OnWsConfigChanged(CfgA, config)
  \/ ReconfigureEnter(CfgA)
  \/ ReconfigureStart(CfgA)
  \/ ReconfigureEnd(CfgA)

SpecAbort == Init /\ [][NextAbort]_vars

(* SpecRestart: the worker receives texts and a print state, the status    *)
(* processor clears the mailbox and a notifier sets the announced flag,     *)
(* and a readiness notice makes the worker restart the client.              *)
NextRestart ==
  \/ MainStart
  \/ \E t \in Threads : StartCheck(t)
  \/ \E t \in Threads : StartThread(t)
  \/ \E w \in Workers : WorkerStep(w)
  \/ \E w \in Workers : FullRestartStep(w)
  \/ \E w \in Workers : \E text \in TextsOffered : OnMessageText(w, text)
  \/ \E w \in Workers : HnrMatch(w)
  \/ \E w \in Workers : HnrLockQueue(w)
  \/ \E w \in Workers : HnrCheck(w)
  \/ \E w \in Workers : HnrLockStatus(w)
  \/ \E w \in Workers : HnrWrite(w)
  \/ ClrLockStatus(Cons)
  \/ ClrLockQueue(Cons)
  \/ ClrBody(Cons)
  \/ \E w \in Workers : OnMessageStatus(w, StateFrame(PRINTING))
  \/ \E w \in Workers : ExtractStatus(w)
  \/ \E v \in BOOLEAN : SetPrintTimeAnnounced(Cons, v)

SpecRestart == Init /\ [][NextRestart]_vars

\* ================================================================= claims
Range(seq) == {seq[i] : i \in 1..Len(seq)}
IsPrefix(a, b) == Len(a) <= Len(b) /\ \A i \in 1..Len(a) : a[i] = b[i]

\* the texts of the configured template sets, read off the configuration
TemplateTexts ==
  UNION {UNION {ResponseCfg[c][i] : i \in DOMAIN ResponseCfg[c]} :
           c \in DOMAIN ResponseCfg}

HandlerLabels == {"hnr", "hnr_q", "hnr_chk", "hnr_s", "hnr_w"}

\* t is between the stop() and the end of a reconfigure() that got the lock
InReconfigure(t) ==
  \/ pc[t] \in {"reconfigure_start", "reconfigure_end"}
  \/ Range(stack[t]) \cap {"reconfigure_start", "reconfigure_end"} # {}

\* t has passed the test of the restarting flag and has not yet returned
InFullRestart(t) ==
  \/ pc[t] \in {"full_restart_set", "full_restart_join",
                "full_restart_status", "full_restart_queue",
                "full_restart_end"}
  \/ "full_restart_end" \in Range(stack[t])

\* C1: with no full restart in between, the texts that became current are,
\* in order, the first of the texts admitted: no text is exposed before one
\* that was admitted earlier and is not exposed yet.
FifoOrder == IsPrefix(exposed, admitted)

\* C2: every admitted text is exposed exactly once (it is among the exposed
\* texts or still in the queue, never dropped and never doubled), and a
\* current text changes only by a consumer's clear_response.
ExactlyOnce ==
  /\ [](admitted = exposed \o response_queue)
  /\ [][(Current # None /\ Current' # Current)
          => (pc[Cons] = "clr_body" /\ pc'[Cons] = "idle")]_vars

\* C3: from the empty mailbox, offers of matching texts a then b leave
\* current = a and pending = <<b>>; a clear_response then leaves current = b
\* and pending empty; a second one leaves current empty.  In general
\* clear_response moves the head of pending into current, or empties current.
OfferOfferClearClear ==
  \A a \in TemplateTexts : \A b \in TemplateTexts :
    /\ oplog = <<a, b>> => (Current = a /\ response_queue = <<b>>)
    /\ oplog = <<a, b, "clear">> => (Current = b /\ response_queue = <<>>)
    /\ oplog = <<a, b, "clear", "clear">>
         => (Current = None /\ response_queue = <<>>)

ClearAdvances ==
  (pc[Cons] = "clr_body" /\ pc'[Cons] = "idle") =>
    IF Len(response_queue) > 0
    THEN /\ Current' = response_queue[1]
         /\ response_queue' = SubSeq(response_queue, 2, Len(response_queue))
    ELSE /\ Current' = None
         /\ response_queue' = <<>>

ClearAndAdvance == []OfferOfferClearClear /\ [][ClearAdvances]_vars

\* C3 witness: the four operations of the scenario have run, in that order
ClearAndAdvanceWitness == oplog = <<"A", "B", "clear", "clear">>

\* C4: while a worker handles a text that is in no template set, its steps
\* change neither current, nor the pending queue, nor the mirrored
\* gcode_response.
NoMatchNoChange ==
  [][\A w \in Workers :
       (pc[w] \in HandlerLabels /\ txt[w] \notin TemplateTexts
          /\ pc'[w] # pc[w])
       => UNCHANGED <<shared_status, response_queue, status>>]_vars

\* C4 witness: "x" was offered and dropped while the mailbox held A and B
NoMatchNoChangeWitness ==
  \E w \in Workers :
    /\ pc[w] = "running" /\ txt[w] = "x"
    /\ Current = "A" /\ response_queue = <<"B">>

\* C5: whoever reads under the status lock finds the mailbox's current value
\* and the mirrored status.gcode_response equal.
MirrorAgrees ==
  (status_lock = Cons /\ pc[Cons] = "peek")
    => Current = status.gcode_response

\* C6: no worker holding the queue lock waits for the status lock while the
\* consumer holding the status lock waits for the queue lock.
NoLockCycle ==
  ~ \E w \in Workers :
      /\ queue_lock = w /\ pc[w] = "hnr_s"
      /\ status_lock = Cons /\ pc[Cons] = "clr_q"

\* C7: at most one thread is inside reconfigure(); a call made while another
\* is inside returns at once, leaving the client and the locks as they were;
\* a call made while none is inside gets in.
OneReconfigureInside ==
  Cardinality({t \in Reconfigurers : InReconfigure(t)}) <= 1

OverlappingCallDropped ==
  \A t \in Reconfigurers :
    (pc[t] = "reconfigure" /\ pc'[t] # pc[t]) =>
      IF \E u \in Reconfigurers \ {t} : InReconfigure(u)
      THEN /\ pc'[t] = "idle" /\ stack'[t] = stack[t]
           /\ UNCHANGED <<clientVars, lockVars>>
      ELSE InReconfigure(t)'

OneReconfigure == []OneReconfigureInside /\ [][OverlappingCallDropped]_vars

\* C7 witness: one watcher's call was dropped while the other is inside
OneReconfigureWitness ==
  \E t \in Reconfigurers : \E u \in Reconfigurers \ {t} :
    /\ pc[t] = "idle" /\ txt[t] = "skipped"
    /\ InReconfigure(u) /\ "start_thread" \in Range(stack[u]) \cup {pc[u]}

\* C8: never is a reconfigure in flight while a full_restart is in flight.
ReconfigureExcludesRestart ==
  ~ ((\E t \in Threads : InReconfigure(t))
       /\ (\E t \in Threads : InFullRestart(t)))

\* C9: at most one thread is past the test of the restarting flag.
OneFullRestart ==
  Cardinality({t \in Threads : InFullRestart(t)}) <= 1

\* C10: when a stop() called with no worker alive (on a client never
\* started, or again after a stop that ended the worker) has returned, the
\* client is in the stopped state: not connected, not subscribed, no thread
\* and no socket reference, the status record at its defaults, print_started
\* false.
StoppedState ==
  /\ ~connected /\ ~subscribed
  /\ thread = None /\ ws = None /\ stop_event
  /\ status = [print_state |-> "-", completion_state |-> "-",
               gcode_response |-> None,
               progress_percent |-> 0, elapsed_time |-> 0,
               remaining_time |-> 0, bed_temp |-> 0,
               last_progress |-> -1, cached_remaining |-> -1]
  /\ ~print_started
  /\ shared_status = [k \in {"connected"} |-> "False"]

StopGetsToReset ==
  \A t \in Threads :
    pc[t] = "stop_reset" =>
      ~ \E w \in Workers :
          /\ status_lock = Cons /\ pc[Cons] = "clr_q"
          /\ queue_lock = w /\ pc[w] = "hnr_s"

\* t is in a start() that found a worker thread alive
StartedOnLive(t) ==
  \/ pc[t] = "start" /\ thread # None /\ Alive(thread)
  \/ /\ pc[t] \in {"stop", "stop_join", "stop_reset"}
     /\ stack[t] # <<>> /\ Head(stack[t]) = "start_thread"

\* C12: the steps of a start() called while a worker thread is alive leave
\* the worker, the socket, the stop signal, the connected and subscribed
\* flags and the status record as they are.
StartNoOpWhenRunning ==
  [][\A t \in Threads :
       (StartedOnLive(t) /\ pc'[t] # pc[t])
       => UNCHANGED <<thread, ws, app, stop_event, connected, subscribed,
                      status>>]_vars

\* the last state the record entered, and whether state a was entered at
\* some point before it with none of the states of S entered in between
Last(seq) == seq[Len(seq)]
EnteredBefore(a, S) ==
  \E i \in 1..(Len(trail) - 1) :
    /\ trail[i] = a
    /\ \A k \in (i + 1)..(Len(trail) - 1) : trail[k] \notin S

\* C13: when the record has entered STANDBY after an entry into PRINTING with
\* no COMPLETE in between, completion_state is CANCELLED and print_started
\* is false.
CancelledOnStandby ==
  (trail # <<>> /\ Last(trail) = STANDBY /\ EnteredBefore(PRINTING, {COMPLETE}))
    => (status.completion_state = CANCELLED /\ ~print_started)

\* C13 witness: a print was paused, failed, and then went to standby
CancelledOnStandbyWitness ==
  /\ trail = <<PRINTING, PAUSED, ERROR, STANDBY>>
  /\ status.completion_state = CANCELLED

\* C14: when the record has entered COMPLETE after an entry into PRINTING
\* with no STANDBY in between, completion_state is COMPLETE.
CompleteAfterPrinting ==
  (trail # <<>> /\ Last(trail) = COMPLETE /\ EnteredBefore(PRINTING, {STANDBY}))
    => status.completion_state = COMPLETE

\* C14 witness: a print that was paused on its way completed
CompleteAfterPrintingWitness ==
  /\ trail = <<PRINTING, PAUSED, PRINTING, COMPLETE>>
  /\ status.completion_state = COMPLETE

\* C15: a step that takes the record from PRINTING to PAUSED or from PAUSED
\* to PRINTING leaves the announced flag as it is; a step that takes it into
\* PRINTING from any other state leaves the flag false.
AnnouncedAcrossPause ==
  [][(status'.print_state # status.print_state /\ Len(trail') = Len(trail) + 1)
     => /\ (status.print_state = PRINTING /\ status'.print_state = PAUSED)
             => print_time_announced' = print_time_announced
        /\ (status.print_state = PAUSED /\ status'.print_state = PRINTING)
             => print_time_announced' = print_time_announced
        /\ (status.print_state # PAUSED /\ status'.print_state = PRINTING)
             => print_time_announced' = FALSE]_vars

\* C15 witness: the flag is set after a pause and a resumption
AnnouncedAcrossPauseWitness ==
  /\ trail = <<PRINTING, PAUSED, PRINTING>>
  /\ print_time_announced

\* the frame m carries for field f the value v, which is not the stored one
Differs(f, v) == v # -1 /\ v # status[f]
Written(f) == status'[f] # status[f]

\* C16: when a status frame is applied, each of print_state,
\* progress_percent, elapsed_time and bed_temp is written if and only if the
\* frame carries a value for it (the progress as a whole percent) that is
\* not the stored one, and then holds that value; the value returned is true
\* if and only if one of them was written.  A key of the frame that is
\* missing, or that the client does not know, changes nothing.
WrittenIffDiffers ==
  [][\A w \in Workers :
       (pc[w] = "status" /\ pc'[w] = "running") =>
       LET m == frame[w] IN
         /\ Written("print_state")
              <=> (m.state # None /\ m.state # status.print_state)
         /\ Written("print_state") => status'.print_state = m.state
         /\ Written("progress_percent")
              <=> Differs("progress_percent", m.progress \div 10)
         /\ Written("progress_percent")
              => status'.progress_percent = m.progress \div 10
         /\ Written("elapsed_time")
              <=> Differs("elapsed_time", m.print_duration)
         /\ Written("elapsed_time") => status'.elapsed_time = m.print_duration
         /\ Written("bed_temp") <=> Differs("bed_temp", m.temperature)
         /\ Written("bed_temp") => status'.bed_temp = m.temperature
         /\ changed' <=> \/ Written("print_state")
                         \/ Written("progress_percent")
                         \/ Written("elapsed_time")
                         \/ Written("bed_temp")]_vars

\* C16 witness: a frame that changed nothing was applied after frames that
\* had changed the temperature, the percent and the duration
WrittenIffDiffersWitness ==
  /\ ~changed
  /\ status.bed_temp = 60 /\ status.progress_percent = 50
  /\ status.elapsed_time = 100

\* C17: when a status frame is applied and the percent after it is the
\* percent of the last computation, the cached remaining time and
\* remaining_time stay as they were, whatever the duration the frame carries.
SamePercentKeepsRemaining ==
  [][\A w \in Workers :
       (/\ pc[w] = "status" /\ pc'[w] = "running"
        /\ status.cached_remaining # -1
        /\ status'.progress_percent = status.last_progress)
       => /\ status'.remaining_time = status.remaining_time
          /\ status'.cached_remaining = status.cached_remaining]_vars

\* C17 witness: at 50 percent the duration went from 100 to 200 and the
\* remaining time is still the 100 computed for the duration 100
SamePercentKeepsRemainingWitness ==
  /\ status.progress_percent = 50 /\ status.elapsed_time = 200
  /\ status.remaining_time = 100 /\ status.cached_remaining = 100

\* the remaining time for a percent p and a duration e
Expected(p, e) ==
  IF p > 0 /\ e > 0
  THEN IF (e * 100) \div p >= e THEN (e * 100) \div p - e ELSE 0
  ELSE 0

\* C18: a step that recomputes the remaining time (for a new percent, or for
\* the first time) leaves max(0, e*100/p - e) if p > 0 and e > 0 and 0
\* otherwise, in the cache and in remaining_time.  After the frames
\* printing, then progress 0.5 with duration 100, applied to a new client,
\* print_state is PRINTING, progress_percent 50 and remaining_time 100; after
\* the frame complete that follows them, completion_state is COMPLETE.
RecomputedRemaining ==
  (status'.last_progress # status.last_progress
     \/ (status.cached_remaining = -1 /\ status'.cached_remaining # -1))
  => /\ status'.remaining_time
          = Expected(status'.progress_percent, status'.elapsed_time)
     /\ status'.cached_remaining = status'.remaining_time

EndToEndValues ==
  /\ e2e = 2 => /\ status.print_state = PRINTING
                /\ status.progress_percent = 50
                /\ status.remaining_time = 100
  /\ e2e = 3 => status.completion_state = COMPLETE

SnapshotIsolated ==
  (held = "live" /\ seen.print_state # UNKNOWN_STR) => status = seen

\* t is in the start() that full_restart() calls
AtRestartStart(t) ==
  /\ pc[t] \in {"start", "start_thread"}
  /\ stack[t] # <<>> /\ Head(stack[t]) = "full_restart_end"

\* C20 as stated: when full_restart() starts the new worker the mailbox is
\* empty (no current text, nothing pending), gcode_response is empty, the
\* announced flag is false, print_started is false and the status record has
\* its defaults.
RestartLeavesAllClear ==
  \A t \in Threads :
    AtRestartStart(t) =>
      /\ Current = None /\ response_queue = <<>>
      /\ status = PrinterStatus
      /\ ~print_started
      /\ ~print_time_announced

\* C20, amended: when full_restart() starts the new worker the mailbox is
\* empty, gcode_response is empty, print_started is false and the status
\* record has its defaults; the reset of full_restart() leaves the announced
\* flag false, and from there to the start of the worker the flag becomes
\* true only by a notifier's set_print_time_announced(True).
RestartLeavesClear ==
  \A t \in Threads :
    AtRestartStart(t) =>
      /\ Current = None /\ response_queue = <<>>
      /\ status = PrinterStatus
      /\ ~print_started

RestartClearsAnnounced ==
  \A t \in Threads :
    /\ (pc[t] = "full_restart_status" /\ pc'[t] = "full_restart_queue")
         => ~print_time_announced'
    /\ (/\ pc[t] = "full_restart_queue" \/ AtRestartStart(t)
        /\ ~print_time_announced /\ print_time_announced')
         => UNCHANGED <<pc, status, shared_status, response_queue,
                        print_started>>

RestartClears == []RestartLeavesClear /\ [][RestartClearsAnnounced]_vars

\* C20 witness: a restart is about to start the new worker, after a print
\* had started, and a notifier has set the announced flag again
RestartClearsWitness ==
  \E t \in Threads :
    /\ AtRestartStart(t) /\ pc[t] = "start_thread"
    /\ Get(shared_status, "klipper_reboot") = "True"
    /\ e2e = 1 /\ print_time_announced

\* a step that takes the status record into the print state s
Enters(s) ==
  /\ status'.print_state = s /\ status.print_state # s
  /\ Len(trail') = Len(trail) + 1

\* C29: every step that takes the record into PRINTING, from whatever state,
\* leaves print_started true and completion_state PENDING.
PrintingStartsRun ==
  [][Enters(PRINTING)
       => (print_started' /\ status'.completion_state = PENDING)]_vars

\* C29 witness: PRINTING was entered again after a cancelled print
PrintingStartsRunWitness ==
  /\ trail = <<PRINTING, STANDBY, PRINTING>>
  /\ print_started /\ status.completion_state = PENDING

\* C30: a step into COMPLETE leaves the announced flag false and leaves a
\* completion_state that is CANCELLED or COMPLETE as it is; a step into
\* STANDBY leaves a completion_state COMPLETE as it is; so after a print
\* that went from PRINTING to COMPLETE without a STANDBY and was not
\* followed by another PRINTING, completion_state is COMPLETE in STANDBY.
CompleteStep ==
  /\ Enters(COMPLETE)
       => /\ ~print_time_announced'
          /\ status.completion_state \in {COMPLETE, CANCELLED}
               => status'.completion_state = status.completion_state
  /\ (Enters(STANDBY) /\ status.completion_state = COMPLETE)
       => status'.completion_state = COMPLETE

FinishedRun ==
  \E i \in 1..Len(trail) : \E j \in (i + 1)..Len(trail) :
    /\ trail[i] = PRINTING /\ trail[j] = COMPLETE
    /\ \A k \in (i + 1)..(j - 1) : trail[k] # STANDBY
    /\ \A k \in (j + 1)..Len(trail) : trail[k] # PRINTING

CompleteStays ==
  /\ [][CompleteStep]_vars
  /\ []((trail # <<>> /\ Last(trail) = STANDBY /\ FinishedRun)
          => status.completion_state = COMPLETE)

\* C30 witness: a completed print, then an error, then standby
CompleteStaysWitness ==
  /\ trail = <<PRINTING, COMPLETE, ERROR, STANDBY>>
  /\ status.completion_state = COMPLETE /\ ~print_started

\* C27: at every moment at most one worker has a socket open.
OneOpenSocket ==
  Cardinality({w \in Workers : app[w] = "open"}) <= 1

\* C28: once the main thread's stop() has returned, with no start() or
\* reconfigure() and no readiness notice after it, the client stays stopped:
\* no worker has a socket open, connected and subscribed are false and the
\* status record is at its defaults.
StaysStopped ==
  (pc[Main] = "idle" /\ lastcall \in {"stop", "stop_again"})
    => /\ \A w \in Workers : app[w] # "open"
       /\ ~connected /\ ~subscribed
       /\ status = PrinterStatus

\* worker w's socket opens in this step
Opens(w) == pc[w] = "connecting" /\ pc'[w] = "running"

\* C26: the step in which a worker's socket opens leaves exactly one query
\* sent on it and, unless a restart is in progress, exactly one subscribe
\* request, and leaves subscribed false; subscribed becomes true only in a
\* step that receives the acknowledgment of a subscribe request sent on the
\* receiving worker's socket.
OpenHandshake ==
  [][/\ \A w \in Workers :
          Opens(w) => /\ sent'[w].query = 1
                      /\ ~restart_in_progress => sent'[w].subscribe = 1
                      /\ ~subscribed'
     /\ (subscribed' /\ ~subscribed)
          => \E w \in Workers : /\ pc[w] = "running" /\ app[w] = "open"
                                /\ sent[w].subscribe > 0
                                /\ pc' = pc]_vars

\* C21: once a full restart is over, the worker it started, running on an
\* open socket, has sent the subscribe request on that socket.
ResubscribedAfterRestart ==
  \A w \in Workers :
    (/\ thread = w /\ ws = w /\ pc[w] = "running" /\ app[w] = "open"
     /\ ~restart_in_progress /\ ~is_restarting
     /\ \A t \in Threads : ~InFullRestart(t))
      => sent[w].subscribe > 0

\* C23: the step that handles a status frame whose progress is not a number
\* leaves the status record, the lifecycle flags, the mailbox and the
\* connection as they are.
MalformedDropped ==
  [][\A w \in Workers :
       (pc[w] = "status" /\ pc'[w] = "running"
        /\ frame[w].progress = Malformed)
       => UNCHANGED <<status, print_started, manual_reset_active,
                      print_time_announced, shared_status, response_queue,
                      connected, subscribed, app>>]_vars

\* C24: a loop iteration made while the Config Provider supplies no host
\* creates no socket: the worker stays in the loop, for the pause and the
\* next iteration.
NoSocketWithoutEndpoint ==
  [][\A w \in Workers :
       (pc[w] = "loop" /\ config.host = "" /\ ~stop_event /\ thread = w)
       => (pc'[w] = "loop" /\ app'[w] = app[w])]_vars

\* C25: when no reconfigure() call is in progress, the websocket parameters
\* the client has loaded are those of the configuration the Config Provider
\* holds.
LatestConfigWins ==
  (/\ \A t \in Reconfigurers : pc[t] = "idle"
   /\ reconfig_lock = None)
    => ws_settings = LoadWsConfig(config)

\* worker w is handling a failed connection attempt, a socket error or the
\* end of its receive loop
Failed(w) == pc[w] \in {"on_error", "on_close"}

\* C22: the client's worker thread ends only after a stop was requested or
\* another worker took its place, and when its connection attempt failed or
\* its socket closed it makes a new connection attempt, unless a stop is
\* requested or it is replaced first.
SelfHealing ==
  /\ [](\A w \in Workers : pc[w] = "dead" => (stop_event \/ thread # w))
  /\ \A w \in Workers :
       (Failed(w) /\ ~stop_event /\ thread = w)
         ~> (pc[w] = "connecting" \/ stop_event \/ thread # w)

\* C22 witness: the worker started by the main thread, with no stop and no
\* reconfigure() called, makes a connection attempt after a failure, which
\* cleared the shared status
SelfHealingWitness ==
  /\ pc["w1"] = "connecting" /\ ~stop_event /\ thread = "w1"
  /\ pc[Main] = "idle" /\ pc[CfgA] = "idle"
  /\ shared_status = ClearedStatus

\* C34: whenever the pending queue holds a text, current holds one.
PendingImpliesCurrent ==
  response_queue # <<>> => Current # None

\* C35: while the client's worker runs on the open socket the client refers
\* to, connected is true: the callbacks of a socket that was replaced do not
\* reset it.
NewerConnectionKept ==
  \A w \in Workers :
    (/\ thread = w /\ ws = w /\ app[w] = "open" /\ pc[w] = "running"
     /\ \A t \in Threads : ~InFullRestart(t))
      => connected

\* C40: subscribed is true only while connected is.
SubscribedImpliesConnected ==
  subscribed => connected

\* C31: the state machine is never run with a new state equal to the stored
\* print_state: every step that applies a frame's state finds the stored
\* state different from it.
StateMachineOnChange ==
  [][\A w \in Workers :
       (pc[w] = "status" /\ pc'[w] = "running" /\ differs[w])
         => frame[w].state # status.print_state]_vars

\* C39: whenever print_started is set, completion_state is PENDING.
StartedImpliesPending ==
  print_started => status.completion_state = PENDING

\* C39 witness: a run is in progress on a record that had left PRINTING
\* before
StartedImpliesPendingWitness ==
  /\ print_started
  /\ status.completion_state = PENDING
  /\ Len(trail) > 1

FlagKeptForMonitor ==
  [][\A key \in LifecycleFlags :
       (Get(shared_status, key) = "True" /\ Get(shared_status', key) # "True")
         => key \in monitor.pending]_vars

\* C33: within one print run the initial time estimate is announced at most
\* once, by PrintTimeNotifier and ProgressNotifier together.
EstimateOnce == estimates <= 1

\* C37: every text that is current is eventually cleared: it does not stay
\* current forever.
AdmittedCleared ==
  \A text \in TextsParking : (Current = text) ~> (Current # text)

\* C36: the restart guard is held only while a full_restart is executing:
\* whenever _is_restarting or _restart_in_progress is set, some thread is
\* inside full_restart.
GuardOnlyWhileRestarting ==
  (is_restarting \/ restart_in_progress)
    => \E t \in Threads : InFullRestart(t)

====
